---- MODULE Spec2Model ----
(***************************************************************************)
(* A model of parrot38.py: the Delimiter value, the WriteOnceDict record,  *)
(* the parse() generator and the load() generator over files.              *)
(*                                                                         *)
(* Text is modelled as a sequence of one-character strings, so that the    *)
(* regular expressions, str.strip, str.lower and "".join are computed      *)
(* character by character.  The alphabet is                                *)
(*    ":"  "-"        punctuation                                          *)
(*    "d" "D" "b" "B" "o" "y"   letters                                    *)
(*    "1"             a digit                                              *)
(*    " "  "\n"       whitespace (the newline is the line terminator)      *)
(*    "\\"            the backslash                                        *)
(***************************************************************************)
EXTENDS Integers, Sequences, FiniteSets, TLC

VARIABLES
    lines,        \* the lines the input iterable has produced so far
    more,         \* TRUE while the input iterable may still produce a line
    backwards,    \* parse() argument
    delim_char,   \* parse() argument: a string, or None
    delim,        \* the Delimiter built at line 99
    line_number,  \* parse() local
    entry,        \* parse() local: the WriteOnceDict of the current post
    body,         \* parse() local: the deque of body lines
    empty,        \* parse() local
    out,          \* the records the generator has yielded, in order
    error,        \* the exception parse() raised, if any
    pc,           \* where the generator is: start, run, yielded, done, failed
                  \* (idle: not called yet)
    objs,         \* the WriteOnceDict objects parse() has created, as they are
    refs,         \* which of objs each yielded record is, in order
    broken,       \* the input iterable raises when it has no line left
    posts,        \* the posts the input was serialized from, if it was
    wod,          \* a WriteOnceDict driven directly (set / delete)
    wod_op,       \* the last operation on wod
    wod_raised,   \* whether the last operation on wod raised
    filenames,    \* load() argument: a str (name), or a list of str (names)
    file_no,      \* load(): the position of filename in filenames
    load_pc,      \* where load() is: idle, start, parsing, yielded, next,
                  \* done, failed
    load_out,     \* the records load() has yielded, with the file of each
    load_error    \* the exception load() raised, if any

vars == <<lines, more, backwards, delim_char, delim, line_number, entry, body,
          empty, out, error, pc, objs, refs, broken, posts, wod, wod_op,
          wod_raised, filenames, file_no, load_pc, load_out, load_error>>

parseVars == <<lines, more, backwards, delim_char, delim, line_number, entry,
               body, empty, out, error, pc, objs, refs, broken, posts>>

dictVars == <<wod, wod_op, wod_raised>>

loadVars == <<filenames, file_no, load_pc, load_out, load_error>>

----------------------------------------------------------------------------
(* Bounds of the model *)

MaxLines == 4      \* input lines drawn from the iterable
MaxPosts == 2      \* posts serialized into one input
MaxFiles == 2      \* filenames given to load()
Slack == 1         \* probe runs are MinRun - Slack .. MinRun + Slack long

----------------------------------------------------------------------------
(* Characters and strings *)

None == <<"None">>
BS == "\\"
NL == "\n"

Digits == {"1"}
Letters == {"d", "D", "b", "B", "o", "y"}
WordChars == Letters \cup Digits
Whitespace == {" ", NL}

Rep(c, n) == [i \in 1..n |-> c]

Min(S) == CHOOSE x \in S : \A y \in S : x <= y
Max(S) == CHOOSE x \in S : \A y \in S : x >= y

\* str.strip()
Strip(s) ==
    LET keep == {i \in 1..Len(s) : s[i] \notin Whitespace}
    IN  IF keep = {} THEN <<>> ELSE SubSeq(s, Min(keep), Max(keep))

LowerChar(ch) == CASE ch = "D" -> "d" [] ch = "B" -> "b" [] OTHER -> ch

\* str.lower()
Lower(s) == [i \in 1..Len(s) |-> LowerChar(s[i])]

\* "".join(q)
RECURSIVE Join(_)
Join(q) == IF q = <<>> THEN <<>> ELSE Head(q) \o Join(Tail(q))

\* deque.reverse()
Reverse(q) == [i \in 1..Len(q) |-> q[Len(q) + 1 - i]]

----------------------------------------------------------------------------
(* Regular expressions.  A pattern is a sequence of tokens:                *)
(*   bol  "^"      eol  "$"      esc  "\c"      rep  "\c{n,}"              *)

MinRun == 7        \* the "{7,}" of the delimiter pattern
DefaultLen == 38   \* the length of the canonical delimiter line

Bol == [t |-> "bol", c |-> "", n |-> 0]
Eol == [t |-> "eol", c |-> "", n |-> 0]
EscTok(c) == [t |-> "esc", c |-> c, n |-> 1]
RepTok(c, n) == [t |-> "rep", c |-> c, n |-> n]

\* What the escape sequence "\c" means to the re module:
\* "\d" and "\D" are character classes, "\b" and "\B" are zero-width
\* assertions, "\1" is a group reference, "\o" and "\y" are bad escapes, and
\* a backslash before any other character of the alphabet is that character.
EscapeKind(c) ==
    CASE c = "d" -> "digit"
      [] c = "D" -> "nondigit"
      [] c \in {"b", "B"} -> "assertion"
      [] c \in Digits -> "groupref"
      [] c \in Letters -> "bad"
      [] OTHER -> "literal"

EscapeMatches(c, ch) ==
    CASE EscapeKind(c) = "digit" -> ch \in Digits
      [] EscapeKind(c) = "nondigit" -> ch \notin Digits
      [] OTHER -> ch = c

\* re.compile(pattern) succeeds
Compiles(p) ==
    \A i \in 1..Len(p) :
        p[i].t \in {"esc", "rep"} =>
            EscapeKind(p[i].c) \in {"digit", "nondigit", "literal"}

\* The number of consecutive characters of line, from position pos on, that
\* "\c" matches
RECURSIVE RunLength(_, _, _)
RunLength(c, line, pos) ==
    IF pos <= Len(line) /\ EscapeMatches(c, line[pos])
    THEN 1 + RunLength(c, line, pos + 1)
    ELSE 0

\* pattern.match(line), for a compiled pattern, from position pos: "\c{n,}"
\* takes n or more of the characters that "\c" matches, as many as let the
\* rest of the pattern match
RECURSIVE MatchAt(_, _, _)
MatchAt(p, line, pos) ==
    IF p = <<>> THEN TRUE
    ELSE LET tk == Head(p)
             rest == Tail(p)
         IN  CASE tk.t = "bol" -> pos = 1 /\ MatchAt(rest, line, pos)
               [] tk.t = "eol" ->
                    /\ \/ pos = Len(line) + 1
                       \/ pos = Len(line) /\ line[pos] = NL
                    /\ MatchAt(rest, line, pos)
               [] tk.t = "esc" ->
                    /\ pos <= Len(line)
                    /\ EscapeMatches(tk.c, line[pos])
                    /\ MatchAt(rest, line, pos + 1)
               [] tk.t = "rep" ->
                    \E k \in tk.n..RunLength(tk.c, line, pos) :
                        MatchAt(rest, line, pos + k)

Match(p, line) == MatchAt(p, line, 1)

\* pattern.replace("^", r"^\\", 1): a literal backslash after the first "^"
EscapePattern(p) ==
    LET bols == {i \in 1..Len(p) : p[i].t = "bol"}
    IN  IF bols = {} THEN p
        ELSE SubSeq(p, 1, Min(bols)) \o <<EscTok(BS)>>
                 \o SubSeq(p, Min(bols) + 1, Len(p))

\* META_PATTERN = r"^::(\w+)::(.*)$" matched against a line: the key is the
\* run of word characters after the first "::" (it must be followed by "::",
\* and ":" is no word character, so the run is maximal); the value is the
\* rest of the line, which holds no newline but a final one, left out.
META_PATTERN(line) ==
    LET n == Len(line)
        ends == {e \in 3..n : \A j \in 3..e : line[j] \in WordChars}
        e == IF ends = {} THEN 0 ELSE Max(ends)
        rest == SubSeq(line, e + 3, n)
        inner == {i \in 1..Len(rest) : rest[i] = NL}
        ok == /\ n >= 2 /\ line[1] = ":" /\ line[2] = ":"
              /\ ends # {}
              /\ e + 2 <= n /\ line[e + 1] = ":" /\ line[e + 2] = ":"
              /\ inner \subseteq {Len(rest)}
    IN  IF ok
        THEN [matched |-> TRUE,
              key |-> SubSeq(line, 3, e),
              value |-> IF inner = {} THEN rest
                        ELSE SubSeq(rest, 1, Len(rest) - 1)]
        ELSE [matched |-> FALSE, key |-> <<>>, value |-> <<>>]

\* META_ESCAPED = META_PATTERN.replace("^", r"^\\", 1)
META_ESCAPED(line) ==
    IF line # <<>> /\ Head(line) = BS
    THEN META_PATTERN(Tail(line))
    ELSE [matched |-> FALSE, key |-> <<>>, value |-> <<>>]

----------------------------------------------------------------------------
(* Delimiter *)

DEFAULT_DELIMITER == <<":">>

NoDelimiter ==
    [raised |-> FALSE, char |-> <<>>, default |-> <<>>,
     pattern |-> <<>>, esc_pattern |-> <<>>]

\* Delimiter.__new__ with the length test "len(char) < 1"
Delimiter_AnyLength(char) ==
    LET c == IF char = None THEN DEFAULT_DELIMITER ELSE char
        pattern == <<Bol, RepTok(c[1], MinRun), Eol>>
    IN  IF Len(c) < 1
        THEN [NoDelimiter EXCEPT !.raised = TRUE]
        ELSE [raised |-> FALSE,
              char |-> c,
              default |-> [i \in 1..(DefaultLen * Len(c)) |->
                               c[((i - 1) % Len(c)) + 1]],
              pattern |-> pattern,
              esc_pattern |-> EscapePattern(pattern)]

\* Delimiter.__new__(cls, char): raised is the ValueError of line 44
Delimiter(char) ==
    LET c == IF char = None THEN DEFAULT_DELIMITER ELSE char
        pattern == <<Bol, RepTok(c[1], MinRun), Eol>>
    IN  IF Len(c) # 1
        THEN [NoDelimiter EXCEPT !.raised = TRUE]
        ELSE [raised |-> FALSE,
              char |-> c,
              default |-> [i \in 1..(DefaultLen * Len(c)) |->
                               c[((i - 1) % Len(c)) + 1]],
              pattern |-> pattern,
              esc_pattern |-> EscapePattern(pattern)]

----------------------------------------------------------------------------
(* WriteOnceDict: an insertion-ordered sequence of [key, value] entries *)

Keys(d) == {d[i].key : i \in 1..Len(d)}

\* d[key], for a key that d holds
Get(d, key) == d[CHOOSE i \in 1..Len(d) : d[i].key = key].value

\* __setitem__ that overwrites the value of a key it holds
SetItem_Overwrite(d, key, value) ==
    IF key \in Keys(d)
    THEN [raised |-> FALSE,
          data |-> [i \in 1..Len(d) |->
                       IF d[i].key = key THEN [key |-> key, value |-> value]
                       ELSE d[i]]]
    ELSE [raised |-> FALSE, data |-> Append(d, [key |-> key, value |-> value])]

\* WriteOnceDict.__setitem__
SetItem(d, key, value) ==
    IF key \in Keys(d)
    THEN [raised |-> TRUE, data |-> d]
    ELSE [raised |-> FALSE, data |-> Append(d, [key |-> key, value |-> value])]

\* WriteOnceDict.__delitem__
DelItem(d, key) == [raised |-> TRUE, data |-> d]

----------------------------------------------------------------------------
(* parse(): the generator, one action per kind of line *)

BODY == <<"b", "o", "d", "y">>    \* the key "body"

NoError == [type |-> "none", num |-> 0, line |-> <<>>, cause |-> "none"]

\* line 99 and lines 102-109: the exception raised before the loop, if any
\* (Delimiter's ValueError, or re.compile's error), else "none"
SetupError(char) ==
    LET d == Delimiter(char)
    IN  IF d.raised THEN "ValueError"
        ELSE IF ~(Compiles(d.pattern) /\ Compiles(d.esc_pattern)) THEN "re.error"
        ELSE "none"

\* lines 117-120: the first pattern of the RegexCollection that matches
Matched(d, line) ==
    IF Match(d.pattern, line) THEN "delim"
    ELSE IF META_PATTERN(line).matched THEN "meta"
    ELSE IF Match(d.esc_pattern, line) THEN "esc_delim"
    ELSE IF META_ESCAPED(line).matched THEN "esc_meta"
    ELSE "none"

\* an assignment to a key of the record in progress: the object changes
Store(st, d) ==
    [st EXCEPT !.entry = d, !.objs = [@ EXCEPT ![Len(@)] = d]]

\* line 133: the record in progress, the object itself, goes to the consumer
Yield(st) ==
    [st EXCEPT !.out = Append(@, st.entry),
               !.refs = Append(@, Len(st.objs)),
               !.pc = "yielded"]

\* a new post begun by emptying the record in progress (entry.clear())
NewPost_ClearsRecord(st) ==
    [Store(st, <<>>) EXCEPT !.body = <<>>, !.empty = TRUE]

\* lines 112 and 134: entry, body, empty = WriteOnceDict(), deque(), True
NewPost(st) ==
    [st EXCEPT !.entry = <<>>, !.body = <<>>, !.empty = TRUE,
               !.objs = Append(@, <<>>)]

\* the wrapping ValueError with a 0-based line number
ParseError_ZeroBased(st, line, cause) ==
    [st EXCEPT !.pc = "failed",
               !.error = [type |-> "ValueError", num |-> st.line_number - 1,
                          line |-> line, cause |-> cause]]

\* lines 141-145: the ValueError that wraps an exception of the loop body
ParseError(st, line, cause) ==
    [st EXCEPT !.pc = "failed",
               !.error = [type |-> "ValueError", num |-> st.line_number,
                          line |-> line, cause |-> cause]]

\* the metadata branch storing the key as written
MetaLine_NoLower(st, line) ==
    LET g == META_PATTERN(line)
        r == SetItem(st.entry, g.key, Strip(g.value))
    IN  IF r.raised THEN ParseError(st, line, "AttributeError")
        ELSE Store(st, r.data)

\* the metadata branch storing the value as written
MetaLine_NoStrip(st, line) ==
    LET g == META_PATTERN(line)
        r == SetItem(st.entry, Lower(g.key), g.value)
    IN  IF r.raised THEN ParseError(st, line, "AttributeError")
        ELSE Store(st, r.data)

\* the metadata branch leaving the line in the body as well
MetaLine_KeepLine(st, line) ==
    LET g == META_PATTERN(line)
        r == SetItem(st.entry, Lower(g.key), Strip(g.value))
    IN  IF r.raised THEN ParseError(st, line, "AttributeError")
        ELSE [Store(st, r.data) EXCEPT !.body = Append(st.body, line)]

\* lines 126-128
MetaLine(st, line) ==
    LET g == META_PATTERN(line)
        r == SetItem(st.entry, Lower(g.key), Strip(g.value))
    IN  IF r.raised THEN ParseError(st, line, "AttributeError")
        ELSE Store(st, r.data)

\* the delimiter branch without "if backwards: body.reverse()"
DelimLine_NoReverse(st, line, bw) ==
    IF ~st.empty
    THEN LET r == SetItem(st.entry, BODY, Strip(Join(st.body)))
         IN  IF r.raised
             THEN ParseError(st, line, "AttributeError")
             ELSE Yield(Store(st, r.data))
    ELSE NewPost(st)

\* the delimiter branch resetting nothing when no record is yielded
DelimLine_NoReset(st, line, bw) ==
    IF ~st.empty
    THEN LET b == IF bw THEN Reverse(st.body) ELSE st.body
             r == SetItem(st.entry, BODY, Strip(Join(b)))
         IN  IF r.raised
             THEN ParseError([st EXCEPT !.body = b], line, "AttributeError")
             ELSE Yield([Store(st, r.data) EXCEPT !.body = b])
    ELSE st

\* the delimiter branch storing the joined body untrimmed
DelimLine_NoStrip(st, line, bw) ==
    IF ~st.empty
    THEN LET b == IF bw THEN Reverse(st.body) ELSE st.body
             r == SetItem(st.entry, BODY, Join(b))
         IN  IF r.raised
             THEN ParseError([st EXCEPT !.body = b], line, "AttributeError")
             ELSE Yield([Store(st, r.data) EXCEPT !.body = b])
    ELSE NewPost(st)

\* the delimiter branch storing the body over a "body" key of the metadata
DelimLine_BodyOverwrites(st, line, bw) ==
    IF ~st.empty
    THEN LET b == IF bw THEN Reverse(st.body) ELSE st.body
             r == SetItem_Overwrite(st.entry, BODY, Strip(Join(b)))
         IN  Yield([Store(st, r.data) EXCEPT !.body = b])
    ELSE NewPost(st)

\* lines 129-134, up to the yield or past the reset when nothing is yielded
DelimLine(st, line, bw) ==
    IF ~st.empty
    THEN LET b == IF bw THEN Reverse(st.body) ELSE st.body
             r == SetItem(st.entry, BODY, Strip(Join(b)))
         IN  IF r.raised
             THEN ParseError([st EXCEPT !.body = b], line, "AttributeError")
             ELSE Yield([Store(st, r.data) EXCEPT !.body = b])
    ELSE NewPost(st)

\* the body branch with "empty = not bool(line)"
BodyLine_NoStrip(st, line) ==
    [st EXCEPT !.body = Append(st.body, line),
               !.empty = IF st.empty THEN line = <<>> ELSE st.empty]

\* lines 138-140
BodyLine(st, line) ==
    [st EXCEPT !.body = Append(st.body, line),
               !.empty = IF st.empty THEN Strip(line) = <<>> ELSE st.empty]

\* the loop body keeping the backslash of an escaped line
Step_KeepBackslash(st, line, bw, d) ==
    LET s1 == [st EXCEPT !.line_number = st.line_number + 1]
        m == Matched(d, line)
    IN  CASE m \in {"esc_delim", "esc_meta"} -> BodyLine(s1, line)
          [] m = "meta" -> MetaLine(s1, line)
          [] m = "delim" -> DelimLine(s1, line, bw)
          [] OTHER -> BodyLine(s1, line)

\* lines 114-140: one iteration of the loop
Step(st, line, bw, d) ==
    LET s1 == [st EXCEPT !.line_number = st.line_number + 1]
        m == Matched(d, line)
    IN  CASE m \in {"esc_delim", "esc_meta"} -> BodyLine(s1, Tail(line))
          [] m = "meta" -> MetaLine(s1, line)
          [] m = "delim" -> DelimLine(s1, line, bw)
          [] OTHER -> BodyLine(s1, line)

\* line 134 and on, when the consumer asks for the next record
ResumeSt(st) == [NewPost(st) EXCEPT !.pc = "run"]

\* lines 111-112
Begin == [line_number |-> 0, entry |-> <<>>, body |-> <<>>, empty |-> TRUE,
          out |-> <<>>, error |-> NoError, pc |-> "run",
          objs |-> <<<<>>>>, refs |-> <<>>]

\* The whole of parse(ls, bw, char), drained by a consumer
RECURSIVE RunFrom(_, _, _, _)
RunFrom(st, ls, bw, d) ==
    CASE st.pc = "failed" -> st
      [] st.pc = "yielded" -> RunFrom(ResumeSt(st), ls, bw, d)
      [] st.line_number < Len(ls) ->
             RunFrom(Step(st, ls[st.line_number + 1], bw, d), ls, bw, d)
      [] st.line_number = Len(ls) -> RunFrom(Step(st, d.default, bw, d), ls, bw, d)
      [] OTHER -> [st EXCEPT !.pc = "done"]

Run(ls, bw, char) ==
    IF SetupError(char) # "none"
    THEN [Begin EXCEPT !.pc = "failed",
                       !.error = [NoError EXCEPT !.type = SetupError(char)]]
    ELSE RunFrom(Begin, ls, bw, Delimiter(char))

St == [line_number |-> line_number, entry |-> entry, body |-> body,
       empty |-> empty, out |-> out, error |-> error, pc |-> pc,
       objs |-> objs, refs |-> refs]

Apply(st) ==
    /\ line_number' = st.line_number
    /\ entry' = st.entry
    /\ body' = st.body
    /\ empty' = st.empty
    /\ out' = st.out
    /\ error' = st.error
    /\ pc' = st.pc
    /\ objs' = st.objs
    /\ refs' = st.refs

\* The lines the input iterable may produce
Delims == {Rep(":", MinRun) \o <<NL>>}
Metas == {<<":", ":", "d", ":", ":", "1", NL>>,
          <<":", ":", "D", ":", ":", " ", "d", NL>>,
          <<":", ":">> \o BODY \o <<":", ":", "o", NL>>}
Escapes == {<<BS, ":", ":", "d", ":", ":", "1", NL>>}
Bodies == {<<"y", NL>>, <<" ", NL>>}
InputLines == Delims \cup Metas \cup Escapes \cup Bodies

\* The separators given to parse()
Separators == {None, <<>>, <<":">>, <<"d">>, <<"1">>, <<":", ":">>}

\* a chain that takes two lines from the input at a time, one ahead of the
\* line it hands out
chain_ReadAhead ==
    IF line_number < Len(lines)
    THEN {[line |-> lines[line_number + 1], lines |-> lines, more |-> more]}
    ELSE IF line_number = Len(lines)
    THEN (IF broken THEN {}
          ELSE {[line |-> delim.default, lines |-> lines, more |-> FALSE]})
         \cup (IF more /\ Len(lines) < MaxLines
               THEN {[line |-> l, lines |-> lines \o <<l, k>>, more |-> TRUE] :
                         l \in InputLines, k \in InputLines}
               ELSE {})
    ELSE {}

\* line 113: what chain(lines, [delim.default]) hands to the for statement
\* next: a line of the input (recorded in lines), or the canonical delimiter
\* line once the input is exhausted (unless the input raises then), or
\* nothing after that
chain ==
    IF line_number < Len(lines)
    THEN {[line |-> lines[line_number + 1], lines |-> lines, more |-> more]}
    ELSE IF line_number = Len(lines)
    THEN (IF broken THEN {}
          ELSE {[line |-> delim.default, lines |-> lines, more |-> FALSE]})
         \cup (IF more /\ Len(lines) < MaxLines
               THEN {[line |-> l, lines |-> Append(lines, l), more |-> TRUE] :
                         l \in InputLines}
               ELSE {})
    ELSE {}

NoOp == [op |-> "none", key |-> <<>>, value |-> <<>>]

\* parse(lines, backwards, delim_char) called, nothing run yet
Called ==
    /\ delim = NoDelimiter
    /\ line_number = 0
    /\ entry = <<>>
    /\ body = <<>>
    /\ empty = TRUE
    /\ out = <<>>
    /\ error = NoError
    /\ pc = "start"
    /\ objs = <<>>
    /\ refs = <<>>
    /\ wod = <<>>
    /\ wod_op = NoOp
    /\ wod_raised = FALSE

\* load() is not running: parse() was called directly, on an input that
\* ends without raising
NoFiles == [type |-> "list", name |-> "", names |-> <<>>]
NoLoadError == [type |-> "none", filename |-> "", cause |-> "none"]

NotLoading ==
    /\ broken = FALSE
    /\ filenames = NoFiles
    /\ file_no = 0
    /\ load_pc = "idle"
    /\ load_out = <<>>
    /\ load_error = NoLoadError

Init ==
    /\ lines = <<>>
    /\ more = TRUE
    /\ posts = <<>>
    /\ backwards \in BOOLEAN
    /\ delim_char \in Separators
    /\ Called
    /\ NotLoading

\* lines 98-112: the first next() runs the generator up to the loop
Start ==
    /\ pc = "start"
    /\ delim_char' = IF delim_char = None THEN DEFAULT_DELIMITER ELSE delim_char
    /\ IF SetupError(delim_char) # "none"
       THEN /\ pc' = "failed"
            /\ error' = [NoError EXCEPT !.type = SetupError(delim_char)]
            /\ UNCHANGED <<delim, line_number, entry, body, empty, out, objs,
                           refs>>
       ELSE /\ delim' = Delimiter(delim_char)
            /\ Apply(Begin)
    /\ UNCHANGED <<lines, more, backwards, broken, posts, dictVars, loadVars>>

OnLine(kinds) ==
    /\ pc = "run"
    /\ \E c \in chain :
        /\ Matched(delim, c.line) \in kinds
        /\ lines' = c.lines
        /\ more' = c.more
        /\ Apply(Step(St, c.line, backwards, delim))
    /\ UNCHANGED <<backwards, delim_char, delim, broken, posts, dictVars,
                   loadVars>>

OnDelimiter == OnLine({"delim"})
OnMeta == OnLine({"meta"})
OnEscaped == OnLine({"esc_delim", "esc_meta"})
OnBody == OnLine({"none"})

\* line 134 and on: the generator is resumed after a yield
Resumed ==
    /\ pc = "yielded"
    /\ Apply(ResumeSt(St))
    /\ UNCHANGED <<lines, more, backwards, delim_char, delim, broken, posts,
                   dictVars>>

\* the consumer of parse() asks for the next record after a yield
Resume ==
    /\ load_pc = "idle"
    /\ Resumed
    /\ UNCHANGED loadVars

\* the for statement finds the chain exhausted: the generator returns
Finish ==
    /\ pc = "run"
    /\ chain = {}
    /\ line_number > Len(lines)
    /\ pc' = "done"
    /\ UNCHANGED <<lines, more, backwards, delim_char, delim, line_number,
                   entry, body, empty, out, error, objs, refs, broken, posts,
                   dictVars, loadVars>>

Next == Start \/ OnDelimiter \/ OnMeta \/ OnEscaped \/ OnBody \/ Resume \/ Finish

Spec == Init /\ [][Next]_vars

----------------------------------------------------------------------------
(* parse() over one probed line: the input is a list of one line, or of a  *)
(* body line and the probed line, and the separator is any of a wider set  *)

AllSeparators == Separators \cup {<<"-">>, <<"D">>, <<" ">>, <<BS>>}

Prefixes == {<<>>, <<BS>>, <<" ">>, <<"y">>}
RunChars == {":", "-", "d", "1", " ", BS}
Suffixes == {<<>>, <<" ">>, <<"y">>}
Terminators == {<<>>, <<NL>>}

ProbeLines ==
    {p \o Rep(c, n) \o x \o t :
         p \in Prefixes, c \in RunChars, n \in (MinRun - Slack)..(MinRun + Slack),
         x \in Suffixes, t \in Terminators}
    \cup Metas \cup Escapes

LineInputs == {<<l>> : l \in ProbeLines} \cup {<<<<"y", NL>>, l>> : l \in ProbeLines}

InitLine ==
    /\ lines \in LineInputs
    /\ more = FALSE
    /\ posts = <<>>
    /\ backwards = FALSE
    /\ delim_char \in AllSeparators
    /\ Called
    /\ NotLoading

SpecLine == InitLine /\ [][Next]_vars

----------------------------------------------------------------------------
(* parse() over posts written out in the parrot38 format: metadata lines,  *)
(* body lines (escaped where they look like markup), the canonical line    *)

Pair(k, v) == [key |-> k, value |-> v]

PostMetas == {<<>>,
              <<Pair(<<"D">>, <<" ", "d", " ">>)>>,
              <<Pair(<<"d", "1">>, <<"1">>), Pair(<<"y">>, <<>>)>>,
              <<Pair(<<"B", "o", "d", "y">>, <<"o">>)>>}

PostBodies == {<<<<"y", NL>>>>,
               <<<<" ", NL>>, Rep(":", MinRun) \o <<NL>>>>,
               <<<<":", ":", "d", ":", ":", "1", NL>>, <<"y", NL>>>>,
               <<<<BS, ":", ":", "d", ":", ":", "1", NL>>>>}

Posts == {[meta |-> m, body |-> b] : m \in PostMetas, b \in PostBodies}

\* the sequences over S of length n
RECURSIVE SeqsOf(_, _)
SeqsOf(S, n) ==
    IF n = 0 THEN {<<>>}
    ELSE {Append(q, x) : q \in SeqsOf(S, n - 1), x \in S}

\* a line of MinRun or more copies of c, with or without its terminator
IsRun(c, l) ==
    \E n \in MinRun..Len(l) : l = Rep(c, n) \/ l = Rep(c, n) \o <<NL>>

\* a body line that has the delimiter or the metadata form
HasMarkupForm(l) == IsRun(":", l) \/ META_PATTERN(l).matched

SerializePost(p) ==
    [i \in 1..Len(p.meta) |->
         <<":", ":">> \o p.meta[i].key \o <<":", ":">> \o p.meta[i].value \o <<NL>>]
    \o [i \in 1..Len(p.body) |->
            IF HasMarkupForm(p.body[i]) THEN <<BS>> \o p.body[i] ELSE p.body[i]]
    \o <<Rep(":", DefaultLen) \o <<NL>>>>

RECURSIVE Serialize(_)
Serialize(ps) ==
    IF ps = <<>> THEN <<>> ELSE SerializePost(Head(ps)) \o Serialize(Tail(ps))

InitRT ==
    /\ posts \in UNION {SeqsOf(Posts, n) : n \in 0..MaxPosts}
    /\ lines = Serialize(posts)
    /\ more = FALSE
    /\ backwards = FALSE
    /\ delim_char \in {None, DEFAULT_DELIMITER}
    /\ Called
    /\ NotLoading

SpecRT == InitRT /\ [][Next]_vars

----------------------------------------------------------------------------
(* A WriteOnceDict under any sequence of set and delete operations *)

DictKeys == {<<"d">>, <<"o">>, BODY}
DictValues == {<<"1">>, <<"y">>}

DictSet(k, v) ==
    /\ wod' = SetItem(wod, k, v).data
    /\ wod_raised' = SetItem(wod, k, v).raised
    /\ wod_op' = [op |-> "set", key |-> k, value |-> v]
    /\ UNCHANGED <<parseVars, loadVars>>

DictDel(k) ==
    /\ wod' = DelItem(wod, k).data
    /\ wod_raised' = DelItem(wod, k).raised
    /\ wod_op' = [op |-> "del", key |-> k, value |-> <<>>]
    /\ UNCHANGED <<parseVars, loadVars>>

InitDict ==
    /\ lines = <<>>
    /\ more = TRUE
    /\ posts = <<>>
    /\ backwards = FALSE
    /\ delim_char = None
    /\ Called
    /\ NotLoading

NextDict ==
    \/ \E k \in DictKeys, v \in DictValues : DictSet(k, v)
    \/ \E k \in DictKeys : DictDel(k)

SpecDict == InitDict /\ [][NextDict]_vars

----------------------------------------------------------------------------
(* load(): parse() run over the lines of each file in turn                 *)

\* The files on disk, by name
FileNames == {"one", "two", "blank", "missing", "dup", "cut"}

\* read_lines(filename): the lines the generator yields, and the exception
\* it raises after them, if any (open() failing, or a line that cannot be
\* decoded)
read_lines(filename) ==
    CASE filename = "one" ->
             [lines |-> <<<<"y", NL>>>>, raises |-> "none"]
      [] filename = "two" ->
             [lines |-> <<<<"y", NL>>, Rep(":", MinRun) \o <<NL>>,
                          <<":", ":", "d", ":", ":", "1", NL>>,
                          <<BS, ":", ":", "d", ":", ":", "1", NL>>>>,
              raises |-> "none"]
      [] filename = "blank" ->
             [lines |-> <<<<" ", NL>>>>, raises |-> "none"]
      [] filename = "missing" ->
             [lines |-> <<>>, raises |-> "FileNotFoundError"]
      [] filename = "dup" ->
             [lines |-> <<<<"y", NL>>, Rep(":", MinRun) \o <<NL>>,
                          <<":", ":", "d", ":", ":", "1", NL>>,
                          <<":", ":", "D", ":", ":", " ", "d", NL>>>>,
              raises |-> "none"]
      [] filename = "cut" ->
             [lines |-> <<<<"y", NL>>, Rep(":", MinRun) \o <<NL>>,
                          <<"y", NL>>>>,
              raises |-> "UnicodeDecodeError"]

\* line 160: a single path stands for the list of that path
Filenames ==
    IF filenames.type = "str" THEN <<filenames.name>> ELSE filenames.names

InitLoad ==
    /\ filenames \in
           {[type |-> "str", name |-> n, names |-> <<>>] : n \in FileNames}
           \cup {[type |-> "list", name |-> "", names |-> q] :
                     q \in UNION {SeqsOf(FileNames, n) : n \in 0..MaxFiles}}
    /\ file_no = 0
    /\ load_pc = "start"
    /\ load_out = <<>>
    /\ load_error = NoLoadError
    /\ lines = <<>>
    /\ more = FALSE
    /\ broken = FALSE
    /\ posts = <<>>
    /\ backwards = FALSE
    /\ delim_char = None
    /\ delim = NoDelimiter
    /\ line_number = 0
    /\ entry = <<>>
    /\ body = <<>>
    /\ empty = TRUE
    /\ out = <<>>
    /\ error = NoError
    /\ pc = "idle"
    /\ objs = <<>>
    /\ refs = <<>>
    /\ wod = <<>>
    /\ wod_op = NoOp
    /\ wod_raised = FALSE

\* lines 161-164: the next filename; parse() is called on its read_lines
LoadOpen ==
    /\ load_pc \in {"start", "next"}
    /\ file_no < Len(Filenames)
    /\ file_no' = file_no + 1
    /\ lines' = read_lines(Filenames[file_no + 1]).lines
    /\ more' = FALSE
    /\ broken' = (read_lines(Filenames[file_no + 1]).raises # "none")
    /\ backwards' = FALSE
    /\ delim_char' = None
    /\ delim' = NoDelimiter
    /\ line_number' = 0
    /\ entry' = <<>>
    /\ body' = <<>>
    /\ empty' = TRUE
    /\ out' = <<>>
    /\ error' = NoError
    /\ pc' = "start"
    /\ objs' = <<>>
    /\ refs' = <<>>
    /\ load_pc' = "parsing"
    /\ UNCHANGED <<filenames, load_out, load_error, posts, dictVars>>

\* line 161: no filename is left, load() returns
LoadReturn ==
    /\ load_pc \in {"start", "next"}
    /\ file_no = Len(Filenames)
    /\ load_pc' = "done"
    /\ UNCHANGED <<parseVars, dictVars, filenames, file_no, load_out,
                   load_error>>

\* line 165: the record parse() yielded is yielded to the consumer of load()
LoadYield ==
    /\ load_pc = "parsing"
    /\ pc = "yielded"
    /\ load_out' = Append(load_out, [file |-> file_no, post |-> out[Len(out)]])
    /\ load_pc' = "yielded"
    /\ UNCHANGED <<parseVars, dictVars, filenames, file_no, load_error>>

\* the consumer of load() asks for the next record: parse() is resumed
LoadResume ==
    /\ load_pc = "yielded"
    /\ Resumed
    /\ load_pc' = "parsing"
    /\ UNCHANGED <<filenames, file_no, load_out, load_error>>

\* line 164: parse() is exhausted, on to the next filename
LoadFileDone ==
    /\ load_pc = "parsing"
    /\ pc = "done"
    /\ load_pc' = "next"
    /\ UNCHANGED <<parseVars, dictVars, filenames, file_no, load_out,
                   load_error>>

\* an except clause that leaves the file and goes on with the next one
LoadRaise_SkipsFile ==
    /\ load_pc = "parsing"
    /\ pc = "failed"
    /\ load_pc' = "next"
    /\ UNCHANGED <<parseVars, dictVars, filenames, file_no, load_out,
                   load_error>>

\* lines 166-168: an exception out of parse() is wrapped with the filename
LoadRaise ==
    /\ load_pc = "parsing"
    /\ pc = "failed"
    /\ load_pc' = "failed"
    /\ load_error' = [type |-> "ValueError",
                      filename |-> Filenames[file_no],
                      cause |-> error.type]
    /\ UNCHANGED <<parseVars, dictVars, filenames, file_no, load_out>>

\* line 113: the for statement asks read_lines for a line and it raises; the
\* exception leaves parse() as it is, outside the try of lines 116-145
ReadRaises ==
    /\ pc = "run"
    /\ broken
    /\ ~more
    /\ line_number = Len(lines)
    /\ pc' = "failed"
    /\ error' = [NoError EXCEPT !.type = read_lines(Filenames[file_no]).raises]
    /\ UNCHANGED <<lines, more, backwards, delim_char, delim, line_number,
                   entry, body, empty, out, objs, refs, broken, posts,
                   dictVars, loadVars>>

NextLoad ==
    \/ LoadOpen \/ LoadReturn \/ LoadYield \/ LoadResume \/ LoadFileDone
    \/ LoadRaise \/ ReadRaises
    \/ Start \/ OnDelimiter \/ OnMeta \/ OnEscaped \/ OnBody \/ Finish

SpecLoad == InitLoad /\ [][NextLoad]_vars

----------------------------------------------------------------------------
(* What the claims speak of, read off the input that was consumed.         *)
(* A line counts as a plain delimiter, a metadata line or an escaped line  *)
(* when parse() classifies it so (the first pattern that matches it).      *)

\* line k of chain(lines, [delim.default])
LineAt(k) == IF k <= Len(lines) THEN lines[k] ELSE delim.default

ClassAt(k) == Matched(delim, LineAt(k))

\* the first line of the post that line k belongs to (or closes)
PostStart(k) ==
    1 + Max({0} \cup {j \in 1..(k - 1) : ClassAt(j) = "delim"})

\* the body content of lines a..b, in the order supplied
RECURSIVE BodyLinesOf(_, _)
BodyLinesOf(a, b) ==
    IF a > b THEN <<>>
    ELSE (CASE ClassAt(a) = "none" -> <<LineAt(a)>>
            [] ClassAt(a) \in {"esc_delim", "esc_meta"} -> <<Tail(LineAt(a))>>
            [] OTHER -> <<>>) \o BodyLinesOf(a + 1, b)

\* the metadata of lines a..b: lower-cased key, trimmed value
RECURSIVE MetaOf(_, _)
MetaOf(a, b) ==
    IF a > b THEN <<>>
    ELSE (IF ClassAt(a) = "meta"
          THEN <<[key |-> Lower(META_PATTERN(LineAt(a)).key),
                  value |-> Strip(META_PATTERN(LineAt(a)).value)]>>
          ELSE <<>>) \o MetaOf(a + 1, b)

NonBlank(q) == \E i \in 1..Len(q) : Strip(q[i]) # <<>>

\* the post closed by line k has body content with a non-whitespace character
NonEmptyPost(k) == NonBlank(BodyLinesOf(PostStart(k), k - 1))

\* the record of the post closed by the delimiter at line k
RecordAt(k) ==
    LET q == BodyLinesOf(PostStart(k), k - 1)
    IN  MetaOf(PostStart(k), k - 1) \o
        <<[key |-> BODY,
           value |-> Strip(Join(IF backwards THEN Reverse(q) ELSE q))]>>

\* the records of the non-empty posts closed by delimiters at lines a..b
RECURSIVE RecordsOf(_, _)
RecordsOf(a, b) ==
    IF a > b THEN <<>>
    ELSE (IF ClassAt(a) = "delim" /\ NonEmptyPost(a)
          THEN <<RecordAt(a)>> ELSE <<>>) \o RecordsOf(a + 1, b)

\* this step processed the canonical delimiter line that follows the input
SyntheticStep ==
    /\ pc = "run"
    /\ line_number = Len(lines)
    /\ line_number' = Len(lines') + 1

\* this step processed a line that parse() classified as kind
StepOn(kind) ==
    /\ pc = "run"
    /\ line_number' = line_number + 1
    /\ Matched(delim, IF line_number' <= Len(lines')
                      THEN lines'[line_number'] ELSE delim.default) = kind

----------------------------------------------------------------------------
\* C1: for every single-character separator, when the input is exhausted and
\* the post in progress has body content with a non-whitespace character, the
\* canonical delimiter line that parse() appends closes the post and its
\* record is yielded.
C1_SyntheticLineEmitsPost ==
    [][(SyntheticStep /\ NonBlank(body))
           => (pc' = "yielded" /\ Len(out') = Len(out) + 1)]_vars

----------------------------------------------------------------------------
\* C2 as stated: at every plain delimiter line, one record is yielded if the
\* post has a body line with a non-whitespace character, and none otherwise.
C2_DelimiterEmitsIffNonBlank ==
    [][StepOn("delim")
           => IF NonBlank(body)
              THEN pc' = "yielded" /\ Len(out') = Len(out) + 1
              ELSE pc' = "run" /\ out' = out]_vars

\* C2 amended: at every plain delimiter line, one record is yielded if the
\* post has a body line with a non-whitespace character and no metadata key
\* "body"; if it has such a line and the key "body", parse() fails there and
\* yields nothing; otherwise nothing is yielded and parsing goes on.
C2_DelimiterEmitsIffNonBlankNoBodyKey ==
    [][StepOn("delim")
           => CASE NonBlank(body) /\ BODY \notin Keys(entry) ->
                       pc' = "yielded" /\ Len(out') = Len(out) + 1
                [] NonBlank(body) /\ BODY \in Keys(entry) ->
                       pc' = "failed" /\ out' = out
                [] OTHER -> pc' = "run" /\ out' = out]_vars

\* a real delimiter line closed a post whose only non-blank line came after
\* a blank one, and one record was yielded
C2_Witness ==
    /\ pc = "yielded"
    /\ line_number = 3
    /\ Len(lines) = 3
    /\ Strip(lines[1]) = <<>>
    /\ Len(out) = 1

----------------------------------------------------------------------------
\* line k is a metadata line whose lower-cased key an earlier metadata line
\* of the same post already has
DuplicateAt(k) ==
    /\ ClassAt(k) = "meta"
    /\ \E j \in PostStart(k)..(k - 1) :
           /\ ClassAt(j) = "meta"
           /\ Lower(META_PATTERN(LineAt(j)).key)
                  = Lower(META_PATTERN(LineAt(k)).key)

\* C3: when the line parse() processed last is a metadata line whose
\* lower-cased key an earlier metadata line of the same post has, parse() has
\* failed with a parse error carrying that line's 1-based position in the
\* input and its text.
C3_DuplicateKeyError ==
    (line_number \in 1..Len(lines) /\ DuplicateAt(line_number))
        => /\ pc = "failed"
           /\ error = [type |-> "ValueError", num |-> line_number,
                       line |-> lines[line_number], cause |-> "AttributeError"]

\* the duplicate is line 3, after a post that was closed or dropped, and its
\* key differs in case from the first one
C3_Witness ==
    /\ pc = "failed"
    /\ error.num = 3
    /\ Len(lines) = 3
    /\ DuplicateAt(3)
    /\ PostStart(3) = 2
    /\ META_PATTERN(lines[2]).key # META_PATTERN(lines[3]).key

----------------------------------------------------------------------------
\* the entries of a record other than its body
Metadata(r) == SelectSeq(r, LAMBDA e : e.key # BODY)

\* C6: the body of a record, when it is yielded, is the trimmed
\* concatenation of the post's body lines, reversed when backwards is set and
\* as supplied when it is not; and parse() run over the same input with the
\* other value of backwards ends the same way (done, or the same error),
\* having yielded as many records, with the same metadata in the same order.
C6_BackwardsReversesBodyOnly ==
    /\ pc = "yielded" =>
           LET q == BodyLinesOf(PostStart(line_number), line_number - 1)
           IN  Get(out[Len(out)], BODY)
                   = Strip(Join(IF backwards THEN Reverse(q) ELSE q))
    /\ pc \in {"done", "failed"} =>
           LET o == Run(lines, ~backwards, delim_char)
           IN  /\ o.pc = pc
               /\ o.error = error
               /\ Len(o.out) = Len(out)
               /\ \A i \in 1..Len(out) : Metadata(o.out[i]) = Metadata(out[i])

\* a finished backwards run whose first record has metadata and a body that
\* differs from the body the forward run gives
C6_Witness ==
    /\ pc = "done"
    /\ backwards
    /\ Len(out) >= 1
    /\ Metadata(out[1]) # <<>>
    /\ Get(out[1], BODY) # Get(Run(lines, FALSE, delim_char).out[1], BODY)

----------------------------------------------------------------------------
\* C7: when parse() has failed on a line, the error is a parse error with
\* that line's number and text, no later line was taken from the input, and
\* the records yielded are exactly those of the non-empty posts closed by
\* plain delimiters before that line.
C7_StopsAtFirstError ==
    (pc = "failed" /\ error.num >= 1) =>
        /\ error.type = "ValueError"
        /\ error.num = line_number
        /\ error.line = LineAt(line_number)
        /\ Len(lines) <= line_number
        /\ out = RecordsOf(1, line_number - 1)

\* a failure on line 4, after one record was yielded
C7_Witness ==
    /\ pc = "failed"
    /\ error.num = 4
    /\ Len(out) = 1

----------------------------------------------------------------------------
\* C10: with a separator that is not exactly one character, parse() fails
\* with the validation error on its first step: it never enters the loop,
\* yields no record and takes no line from the input.
C10_BadSeparatorFails ==
    (delim_char # None /\ Len(delim_char) # 1) =>
        /\ Delimiter(delim_char).raised
        /\ pc \in {"start", "failed"}
        /\ pc = "failed" => error = [NoError EXCEPT !.type = "ValueError"]
        /\ out = <<>>
        /\ line_number = 0
        /\ lines = <<>>

\* parse() was given a two-character separator and has failed
C10_Witness ==
    /\ Len(delim_char) = 2
    /\ pc = "failed"

----------------------------------------------------------------------------
\* the line this step processed
StepLine ==
    IF line_number' <= Len(lines') THEN lines'[line_number'] ELSE delim.default

\* this step processed a line
LineStep == pc = "run" /\ line_number' = line_number + 1

\* this step appended the line, less its first character, to the body queue
\* and changed neither the record nor the records yielded
AppendedUnescaped ==
    /\ body' = Append(body, Tail(StepLine))
    /\ entry' = entry
    /\ out' = out
    /\ pc' = "run"

\* C5 as stated: a line that matches the escaped-delimiter or the
\* escaped-metadata pattern is appended without its backslash to the body
\* queue, closes nothing, adds no key, and marks the post non-empty.  (Taken
\* for the separators whose pattern is the character itself, so that a
\* violation does not rest on what "\d" or "\D" match.)
C5_EscapedLineIsBody ==
    [][(/\ LineStep
        /\ EscapeKind(delim.char[1]) = "literal"
        /\ \/ Match(delim.esc_pattern, StepLine)
           \/ META_ESCAPED(StepLine).matched)
           => (AppendedUnescaped /\ ~empty')]_vars

\* C5 amended: a line that parse() classifies as an escaped delimiter or an
\* escaped metadata line (it matches the escaped pattern and not the plain
\* delimiter pattern, which is tried first) is appended without its backslash
\* to the body queue, closes nothing and adds no key; the post is non-empty
\* afterwards if it was before or if the rest of the line has a
\* non-whitespace character.
C5_ClassifiedEscapedLineIsBody ==
    [][(StepOn("esc_delim") \/ StepOn("esc_meta"))
           => /\ AppendedUnescaped
              /\ empty' <=> (empty /\ Strip(Tail(StepLine)) = <<>>)]_vars

\* an escaped delimiter line was the first line of the input: the body queue
\* holds it without its backslash and the post is no longer empty
C5_Witness ==
    /\ pc = "run"
    /\ line_number = 1
    /\ ClassAt(1) = "esc_delim"
    /\ body = <<Tail(lines[1])>>
    /\ entry = <<>>
    /\ ~empty

----------------------------------------------------------------------------
\* C9: for every single-character separator c, the line parse() processed
\* last closed the post in progress (a record was yielded, or the record and
\* the body queue were reset) if and only if the line is 7 or more copies of
\* c, with or without its line terminator.
C9_DelimiterIffRunOfSeparator ==
    (pc \in {"run", "yielded"} /\ line_number \in 1..Len(lines)) =>
        ((pc = "yielded" \/ (body = <<>> /\ entry = <<>>))
             <=> IsRun(delim.char[1], lines[line_number]))

----------------------------------------------------------------------------
\* the record a post is expected to come back as
ExpectedRecord(p) ==
    [i \in 1..Len(p.meta) |->
         Pair(Lower(p.meta[i].key), Strip(p.meta[i].value))]
    \o <<Pair(BODY, Strip(Join(p.body)))>>

\* C4 as stated: parsing the serialized posts ends without error, having
\* yielded one record per post, in order, with lower-cased keys, trimmed
\* values and the trimmed body.
C4_RoundTrip ==
    pc \in {"done", "failed"} =>
        /\ pc = "done"
        /\ out = [i \in 1..Len(posts) |-> ExpectedRecord(posts[i])]

\* a post the format can carry: no metadata key that lower-cases to "body",
\* and no body line made of a backslash and a delimiter or metadata line
Representable(p) ==
    /\ \A i \in 1..Len(p.meta) : Lower(p.meta[i].key) # BODY
    /\ \A i \in 1..Len(p.body) :
           ~(Head(p.body[i]) = BS /\ HasMarkupForm(Tail(p.body[i])))

\* C4 amended: the round trip, for posts that have no metadata key
\* lower-casing to "body" and no body line made of a backslash followed by a
\* delimiter or metadata line, parsed with the default separator.
C4_RoundTripRepresentable ==
    (pc \in {"done", "failed"} /\ \A i \in 1..Len(posts) : Representable(posts[i]))
        => /\ pc = "done"
           /\ out = [i \in 1..Len(posts) |-> ExpectedRecord(posts[i])]

\* two posts came back: the first with an upper-case key and a padded value,
\* the second with a body line that had to be escaped
C4_Witness ==
    /\ pc = "done"
    /\ Len(posts) = 2
    /\ Len(out) = 2
    /\ \A i \in 1..2 : Representable(posts[i])
    /\ posts[1].meta # <<>>
    /\ Lower(posts[1].meta[1].key) # posts[1].meta[1].key
    /\ Strip(posts[1].meta[1].value) # posts[1].meta[1].value
    /\ \E i \in 1..Len(posts[2].body) : HasMarkupForm(posts[2].body[i])

----------------------------------------------------------------------------
\* C8: a set on an absent key appends the entry; a set on a present key and
\* every delete raise and leave the mapping as it was; so no key is ever
\* lost and every key keeps its first value.
C8_WriteOnce ==
    [][/\ (wod_op'.op = "set" /\ wod_op'.key \notin Keys(wod))
              => (~wod_raised' /\ wod' = Append(wod, Pair(wod_op'.key, wod_op'.value)))
       /\ (wod_op'.op = "set" /\ wod_op'.key \in Keys(wod))
              => (wod_raised' /\ wod' = wod)
       /\ wod_op'.op = "del" => (wod_raised' /\ wod' = wod)
       /\ Keys(wod) \subseteq Keys(wod')
       /\ \A k \in Keys(wod) : Get(wod', k) = Get(wod, k)]_vars

\* a set of another value on a present key has raised and the first value is
\* still there
C8_Witness ==
    /\ wod_raised
    /\ wod_op.op = "set"
    /\ Len(wod) = 2
    /\ wod_op.key \in Keys(wod)
    /\ Get(wod, wod_op.key) # wod_op.value

----------------------------------------------------------------------------
\* the lines of the post in progress once line_number lines are processed
CurrentFrom == PostStart(line_number + 1)

\* C11: once a plain delimiter is processed and parse() goes on (at once when
\* nothing was yielded, or when it is resumed after the yield), the record and
\* the body queue are empty and empty is set; the record and the body queue
\* hold only the metadata and the body lines that came after the last plain
\* delimiter, so a yielded record holds nothing of the posts before it; and a
\* metadata line fails only on a key its own post already has.
C11_DelimiterResets ==
    /\ (pc = "run" /\ line_number >= 1 /\ ClassAt(line_number) = "delim")
           => (entry = <<>> /\ body = <<>> /\ empty)
    /\ pc = "run"
           => /\ entry = MetaOf(CurrentFrom, line_number)
              /\ body = BodyLinesOf(CurrentFrom, line_number)
              /\ empty <=> ~NonBlank(body)
    /\ pc = "yielded"
           => /\ ClassAt(line_number) = "delim"
              /\ out[Len(out)] = RecordAt(line_number)
    /\ (pc = "failed" /\ error.num >= 1 /\ ClassAt(error.num) = "meta")
           => DuplicateAt(error.num)

\* a post of one metadata line was dropped as empty, the next post used the
\* same key again, and its record holds that key once
C11_Witness ==
    /\ pc = "yielded"
    /\ Len(lines) = 4
    /\ ClassAt(1) = "meta"
    /\ ClassAt(2) = "delim"
    /\ ClassAt(3) = "meta"
    /\ Lower(META_PATTERN(lines[1]).key) = Lower(META_PATTERN(lines[3]).key)
    /\ Len(out) = 1
    /\ Len(out[1]) = 2

----------------------------------------------------------------------------
\* the key and the value a metadata line stores
StepKey == Lower(META_PATTERN(StepLine).key)
StepValue == Strip(META_PATTERN(StepLine).value)

\* this step stored the metadata of its line and changed nothing else
StoredMeta ==
    /\ entry' = Append(entry, Pair(StepKey, StepValue))
    /\ body' = body
    /\ empty' = empty
    /\ out' = out
    /\ pc' = "run"

\* the body content of the post in progress, in the order supplied
SuppliedBody == BodyLinesOf(CurrentFrom, line_number)

\* C12 as stated: every metadata line, wherever it stands in its post, stores
\* its lower-cased key and trimmed value at once and leaves the body queue
\* and the empty flag alone; and a yielded body is the trimmed concatenation
\* of the post's body content in the order supplied.  (Taken for the
\* separators whose pattern is the character itself.)
C12_MetaAnywhere ==
    [][(pc = "run" /\ EscapeKind(delim.char[1]) = "literal")
           => /\ StepOn("meta") => StoredMeta
              /\ (StepOn("delim") /\ pc' = "yielded")
                     => Get(out'[Len(out')], BODY) = Strip(Join(SuppliedBody))]_vars

\* C12 amended: a metadata line whose lower-cased key the post does not hold
\* yet, wherever it stands in its post, stores the key and the trimmed value
\* at once and leaves the body queue and the empty flag alone (on a key the
\* post holds, parse() fails and yields nothing); and a yielded body is the
\* trimmed concatenation of the post's body content, metadata lines left
\* out, in the order supplied, or in the reverse order when backwards is set.
C12_NewMetaAnywhere ==
    [][/\ StepOn("meta")
              => IF StepKey \in Keys(entry)
                 THEN pc' = "failed" /\ out' = out
                 ELSE StoredMeta
       /\ (StepOn("delim") /\ pc' = "yielded")
              => Get(out'[Len(out')], BODY)
                     = Strip(Join(IF backwards THEN Reverse(SuppliedBody)
                                  ELSE SuppliedBody))]_vars

\* a metadata line stood between two body lines: the record holds its key
\* and the body is the two body lines
C12_Witness ==
    /\ pc = "yielded"
    /\ Len(lines) >= 3
    /\ ClassAt(1) = "none" /\ Strip(lines[1]) # <<>>
    /\ ClassAt(2) = "meta"
    /\ ClassAt(3) = "none" /\ Strip(lines[3]) # <<>>
    /\ Len(out) = 1
    /\ Len(out[1]) = 2
    /\ Get(out[1], BODY) = Strip(lines[1] \o lines[3])

----------------------------------------------------------------------------
\* C13: a record is yielded when the line processed last is a plain
\* delimiter, no line beyond that one has been taken from the input, and the
\* records yielded so far are those of the non-empty posts in the order of
\* their closing delimiters; parse() never holds a line it has not processed;
\* and while the consumer does not resume the generator, no line is taken.
C13_LazyInOrder ==
    /\ [](/\ Len(lines) <= line_number
          /\ pc = "yielded"
                 => /\ ClassAt(line_number) = "delim"
                    /\ NonEmptyPost(line_number)
                    /\ out = RecordsOf(1, line_number)
                    /\ Len(out) = Cardinality({k \in 1..line_number :
                                      ClassAt(k) = "delim" /\ NonEmptyPost(k)}))
    /\ [][pc = "yielded"
              => /\ lines' = lines
                 /\ line_number' = line_number
                 /\ out' = out
                 /\ pc' = "run"]_vars

\* the second record is yielded at line 4 of an input that may go on: four
\* lines were taken, both records are out
C13_Witness ==
    /\ pc = "yielded"
    /\ more
    /\ line_number = 4
    /\ Len(lines) = 4
    /\ Len(out) = 2
    /\ ClassAt(2) = "delim"

----------------------------------------------------------------------------
\* the line parse() processed last closed the post in progress
Closed == pc = "yielded" \/ (pc = "run" /\ body = <<>> /\ entry = <<>>)

\* C14: with a single-character separator c other than the colon, once a
\* line of the input is processed: a `::key::value` line has stored its key
\* and joined nothing to the body; a `\::key::value` line is in the body
\* without its backslash; a line of 7 or more colons is in the body as it
\* is; and the post was closed if and only if the line is 7 or more copies
\* of c.
C14_MetaWhateverSeparator ==
    (/\ pc \in {"run", "yielded", "failed"}
     /\ line_number \in 1..Len(lines)
     /\ delim.char # <<":">>)
        => LET l == lines[line_number]
           IN  /\ META_PATTERN(l).matched
                      => /\ pc = "run"
                         /\ entry = <<Pair(Lower(META_PATTERN(l).key),
                                           Strip(META_PATTERN(l).value))>>
                         /\ l \notin {body[i] : i \in 1..Len(body)}
               /\ META_ESCAPED(l).matched
                      => /\ pc = "run"
                         /\ entry = <<>>
                         /\ body # <<>> /\ body[Len(body)] = Tail(l)
               /\ IsRun(":", l)
                      => /\ pc = "run"
                         /\ entry = <<>>
                         /\ body # <<>> /\ body[Len(body)] = l
               /\ Closed <=> IsRun(delim.char[1], l)

----------------------------------------------------------------------------
\* reading or parsing the file fails
FileFails(filename) ==
    \/ read_lines(filename).raises # "none"
    \/ Run(read_lines(filename).lines, FALSE, None).pc = "failed"

\* the records load() has yielded from the file at position f
YieldedOf(f) ==
    LET q == SelectSeq(load_out, LAMBDA r : r.file = f)
    IN  [i \in 1..Len(q) |-> q[i].post]

\* C15: the records load() yields come file by file in the order given; the
\* files before the current one were read and parsed to the end without
\* failure and gave exactly the records parse() emits for them, in that
\* order; the current file has given the records parse() has yielded so far;
\* when load() has failed, the current file is one whose reading or parsing
\* fails and the error is a ValueError that names it; and load() returns
\* only when no file has failed, so that nothing follows a failure.
C15_LoadFileByFile ==
    load_pc # "idle" =>
        /\ \A i \in 1..Len(load_out) : \A j \in i..Len(load_out) :
               load_out[i].file <= load_out[j].file
        /\ \A i \in 1..Len(load_out) : load_out[i].file \in 1..file_no
        /\ \A f \in 1..(file_no - 1) :
               /\ ~FileFails(Filenames[f])
               /\ YieldedOf(f) = Run(read_lines(Filenames[f]).lines, FALSE, None).out
        /\ (file_no >= 1 /\ load_pc # "parsing") => YieldedOf(file_no) = out
        /\ load_pc = "failed"
               => /\ FileFails(Filenames[file_no])
                  /\ load_error.type = "ValueError"
                  /\ load_error.filename = Filenames[file_no]
                  /\ pc = "failed"
        /\ load_pc = "done"
               => /\ file_no = Len(Filenames)
                  /\ \A f \in 1..Len(Filenames) : ~FileFails(Filenames[f])
        /\ load_pc # "failed" => load_error = NoLoadError

\* load() failed on its second file after yielding a record from it, with
\* the records of the first file out before
C15_Witness ==
    /\ load_pc = "failed"
    /\ file_no = 2
    /\ YieldedOf(1) # <<>>
    /\ YieldedOf(2) # <<>>
    /\ load_error.filename = Filenames[2]
    /\ Filenames[1] # Filenames[2]

----------------------------------------------------------------------------
\* the positions of the entries of record r that have the key k
EntriesOf(r, k) == {j \in 1..Len(r) : r[j].key = k}

\* C16: every record yielded has exactly one entry with the key "body" and
\* no key twice; the body is not empty and has no whitespace at either end;
\* every other key is in lower case and every other value has no whitespace
\* at either end; and the record being yielded has for body the trimmed
\* concatenation of the body content of the post its delimiter closed.
C16_RecordShape ==
    /\ \A i \in 1..Len(out) :
           LET r == out[i]
               b == Get(r, BODY)
           IN  /\ Cardinality(EntriesOf(r, BODY)) = 1
               /\ \A j \in 1..Len(r) : Cardinality(EntriesOf(r, r[j].key)) = 1
               /\ b # <<>>
               /\ Strip(b) = b
               /\ \A j \in 1..Len(r) :
                      /\ Lower(r[j].key) = r[j].key
                      /\ Strip(r[j].value) = r[j].value
    /\ pc = "yielded"
           => LET q == BodyLinesOf(PostStart(line_number), line_number - 1)
              IN  /\ NonBlank(q)
                  /\ out[Len(out)] = MetaOf(PostStart(line_number), line_number - 1)
                         \o <<Pair(BODY, Strip(Join(IF backwards THEN Reverse(q)
                                                    ELSE q)))>>

\* a record came out of a post whose metadata line had an upper-case key and
\* a padded value and whose body had a blank line before its text
C16_Witness ==
    /\ pc = "done"
    /\ Len(lines) = 3
    /\ ClassAt(1) = "meta"
    /\ Lower(META_PATTERN(lines[1]).key) # META_PATTERN(lines[1]).key
    /\ Strip(META_PATTERN(lines[1]).value) # META_PATTERN(lines[1]).value
    /\ ClassAt(2) = "none" /\ Strip(lines[2]) = <<>>
    /\ ClassAt(3) = "none"
    /\ Len(out) = 1
    /\ Len(out[1]) = 2

----------------------------------------------------------------------------
\* this step failed with the parse error of the line it processed
FailedOnStepLine ==
    /\ pc' = "failed"
    /\ error' = [type |-> "ValueError", num |-> line_number + 1,
                 line |-> StepLine, cause |-> "AttributeError"]
    /\ out' = out

\* what C17 says of a plain delimiter closing a post that holds the key
\* "body": a non-empty post fails there, with the number and text of the
\* delimiter line (the canonical line of DefaultLen characters, numbered one
\* past the input, when it is the one parse() appends), and yields nothing;
\* an empty post is dropped and parsing goes on; and whenever a record is
\* yielded, the post held no key "body", so the body is no metadata value
ReservedAtDelimiter ==
    /\ (StepOn("delim") /\ BODY \in Keys(entry))
           => IF NonBlank(body)
              THEN /\ FailedOnStepLine
                   /\ SyntheticStep => /\ error'.num = Len(lines) + 1
                                       /\ error'.line = Rep(delim.char[1], DefaultLen)
              ELSE /\ pc' = "run"
                   /\ out' = out
                   /\ entry' = <<>>
    /\ pc' = "yielded" => BODY \notin Keys(entry)

\* C17 as stated: every metadata line whose key lower-cases to "body" is
\* stored without error when it is read, and the failure comes only at the
\* plain delimiter closing the post.  (Taken for the separators whose pattern
\* is the character itself.)
C17_BodyKeyReserved ==
    [][(pc = "run" /\ EscapeKind(delim.char[1]) = "literal")
           => /\ (StepOn("meta") /\ StepKey = BODY)
                     => (pc' = "run" /\ Get(entry', BODY) = StepValue)
              /\ ReservedAtDelimiter]_vars

\* C17 amended: a metadata line whose key lower-cases to "body" is stored
\* without error when it is read if the post holds no key "body" yet (a
\* second one fails at once, as any repeated key does); the failure of a
\* non-empty post holding the key comes at the plain delimiter closing it.
C17_FirstBodyKeyReserved ==
    [][pc = "run"
           => /\ (StepOn("meta") /\ StepKey = BODY)
                     => IF BODY \in Keys(entry)
                        THEN FailedOnStepLine
                        ELSE StoredMeta
              /\ ReservedAtDelimiter]_vars

\* a body line and a `::body::` line were read without error and parse()
\* failed on the canonical line it appended after the two input lines
C17_Witness ==
    /\ pc = "failed"
    /\ Len(lines) = 2
    /\ ClassAt(1) = "none"
    /\ ClassAt(2) = "meta"
    /\ Lower(META_PATTERN(lines[2]).key) = BODY
    /\ error.num = 3
    /\ Len(error.line) = DefaultLen
    /\ out = <<>>

----------------------------------------------------------------------------
\* C18: the record objects handed to the consumer are distinct objects, each
\* holds what it held when it was yielded, and no step changes one of them;
\* the record in progress is the newest object, and except at the yield
\* itself it is none of the objects yielded.
C18_EmittedRecordsFrozen ==
    /\ [](/\ Len(refs) = Len(out)
          /\ \A i \in 1..Len(refs) :
                 /\ refs[i] \in 1..Len(objs)
                 /\ objs[refs[i]] = out[i]
                 /\ \A j \in 1..Len(refs) : refs[i] = refs[j] => i = j
                 /\ pc # "yielded" => refs[i] # Len(objs)
          /\ pc \in {"run", "yielded"} => entry = objs[Len(objs)])
    /\ [][(pc = "run" \/ pc = "yielded")
              => \A i \in 1..Len(refs) :
                     /\ i <= Len(refs') /\ refs'[i] = refs[i]
                     /\ refs[i] <= Len(objs') /\ objs'[refs[i]] = objs[refs[i]]
                     /\ i <= Len(out') /\ out'[i] = out[i]]_vars

\* after a record was yielded at line 2, a metadata line, a body line and
\* the closing line were processed: the first record is as it was yielded
C18_Witness ==
    /\ pc = "yielded"
    /\ Len(lines) = 4
    /\ ClassAt(2) = "delim"
    /\ ClassAt(3) = "meta"
    /\ ClassAt(4) = "none"
    /\ Len(out) = 2
    /\ refs = <<1, 2>>
    /\ Len(objs[1]) = 1
    /\ Len(objs[2]) = 2

====
